---- MODULE Spec2Model ----
(***************************************************************************)
(* Model of log_monitor.py: the configuration clamps of ConfigManager, the *)
(* Content Processor (LogProcessor.clean / LogProcessor.filter) and the    *)
(* Monitor Engine (LogMonitor.start / stop / _open_file / _close_file /    *)
(* _detect_truncate) together with the file system and the signals that   *)
(* act on it from outside.                                                 *)
(*                                                                         *)
(* Text is a sequence of character codes (ASCII), so that the regular      *)
(* expressions of the source can be evaluated on it; the log file is       *)
(* assumed to hold single-byte characters, so a character count and a byte *)
(* count agree.                                                            *)
(***************************************************************************)
EXTENDS Integers, Sequences, FiniteSets, TLC

VARIABLES
    \* ---- Content Processor harness (SpecProc) ----
    procPc, procIn, procAnsi, procInc, procExc, procOut, procOut2, procVerdict,
    \* ---- Config Provider harness (SpecConfig) ----
    cfgPc, cfgRaw, valid_params,
    \* ---- truncation detector harness (SpecTrunc) ----
    tSens, tLast, tStats, tObs, tRets,
    \* ---- Monitor Engine (Spec) ----
    params,          \* self.params, the bundle the engine runs with
    fs,              \* the monitored path: kind, readable, data
    pc,              \* position of the main thread
    file,            \* self._file
    is_running,      \* self._is_running
    last_file_size,  \* self._last_file_size
    stats,           \* self._stats
    handler,         \* TRUE once signal.signal(..., self.stop) has run
    exc,             \* exception in flight on the main thread
    inTry,           \* the main thread is inside the try block of start()
    mode,            \* read_full argument of the _open_file call in progress
    closeRet,        \* which caller _close_file returns to
    chunk,           \* the chunk just read (new_content / chunk)
    total_bytes,     \* total_bytes of the replay in progress
    out,             \* log content printed to the console so far
    exitCode,        \* exit code once the process has ended
    os_nt,           \* os.name == "nt"
    hist,            \* observations kept for the properties
    budget           \* remaining external events

procVars == <<procPc, procIn, procAnsi, procInc, procExc, procOut, procOut2, procVerdict>>
cfgVars == <<cfgPc, cfgRaw, valid_params>>
truncVars == <<tSens, tLast, tStats, tObs, tRets>>
engineVars == <<params, fs, pc, file, is_running, last_file_size, stats, handler,
                exc, inTry, mode, closeRet, chunk, total_bytes, out, exitCode,
                os_nt, hist, budget>>
vars == <<procVars, cfgVars, truncVars, engineVars>>

Min(a, b) == IF b < a THEN b ELSE a
Max(a, b) == IF b > a THEN b ELSE a

(***************************************************************************)
(* Content Processor                                                       *)
(***************************************************************************)

\* the keys of _CHAR_FIX_MAP, in the order the combined pattern tries them
\* "mainEx", "Server threadEx", "Worker-Main-Ex"
CHAR_FIX_KEYS ==
    << <<109, 97, 105, 110, 69, 120>>,
       <<83, 101, 114, 118, 101, 114, 32, 116, 104, 114, 101, 97, 100, 69, 120>>,
       <<87, 111, 114, 107, 101, 114, 45, 77, 97, 105, 110, 45, 69, 120>> >>

\* _CHAR_FIX_MAP[key]: "main", "Server thread", "Worker-Main-"
CHAR_FIX_MAP(k) == SubSeq(CHAR_FIX_KEYS[k], 1, Len(CHAR_FIX_KEYS[k]) - 2)

\* the literal kw occurs in s at position i
MatchAt(kw, s, i) ==
    /\ i + Len(kw) - 1 <= Len(s)
    /\ \A j \in 1..Len(kw) : s[i + j - 1] = kw[j]

\* Python's `kw in content`
Contains(kw, s) == \E i \in 1..(Len(s) - Len(kw) + 1) : MatchAt(kw, s, i)

\* first alternative of char_fix_pattern that matches at i, 0 if none
CharFixAlt(s, i) ==
    IF MatchAt(CHAR_FIX_KEYS[1], s, i) THEN 1
    ELSE IF MatchAt(CHAR_FIX_KEYS[2], s, i) THEN 2
    ELSE IF MatchAt(CHAR_FIX_KEYS[3], s, i) THEN 3
    ELSE 0

\* char_fix_pattern.sub(lambda m: _CHAR_FIX_MAP[m.group()], content): one
\* left-to-right pass over non-overlapping matches
RECURSIVE CharFixSub(_, _)
CharFixSub(s, i) ==
    IF i > Len(s) THEN <<>>
    ELSE LET k == CharFixAlt(s, i) IN
         IF k = 0 THEN <<s[i]>> \o CharFixSub(s, i + 1)
         ELSE CHAR_FIX_MAP(k) \o CharFixSub(s, i + Len(CHAR_FIX_KEYS[k]))

\* number of consecutive characters of s from position i whose code is in lo..hi
RECURSIVE RunLen(_, _, _, _)
RunLen(s, i, lo, hi) ==
    IF i <= Len(s) /\ s[i] >= lo /\ s[i] <= hi THEN 1 + RunLen(s, i + 1, lo, hi) ELSE 0

\* length of the match of \x1B(?:[@-Z\\-_]|\[[0-?]*[ -/]*[@-~]) at i, 0 if none
AnsiMatchLen(s, i) ==
    IF i > Len(s) \/ s[i] # 27 \/ i + 1 > Len(s) THEN 0
    ELSE IF (s[i + 1] >= 64 /\ s[i + 1] <= 90) \/ (s[i + 1] >= 92 /\ s[i + 1] <= 95) THEN 2
    ELSE IF s[i + 1] # 91 THEN 0
    ELSE LET p == RunLen(s, i + 2, 48, 63)
             q == RunLen(s, i + 2 + p, 32, 47)
             f == i + 2 + p + q
         IN IF f <= Len(s) /\ s[f] >= 64 /\ s[f] <= 126 THEN f - i + 1 ELSE 0

\* ansi_pattern.sub('', content)
RECURSIVE AnsiSub(_, _)
AnsiSub(s, i) ==
    IF i > Len(s) THEN <<>>
    ELSE LET n == AnsiMatchLen(s, i) IN
         IF n = 0 THEN <<s[i]>> \o AnsiSub(s, i + 1)
         ELSE AnsiSub(s, i + n)

\* LogProcessor.clean
clean(content, filter_ansi) ==
    LET fixed == CharFixSub(content, 1) IN
    IF filter_ansi THEN AnsiSub(fixed, 1) ELSE fixed

\* the `for kw in self.exclude_keywords` loop: TRUE when it returns False
RECURSIVE ExcludeLoop(_, _, _)
ExcludeLoop(exclude, content, k) ==
    IF k > Len(exclude) THEN FALSE
    ELSE IF Contains(exclude[k], content) THEN TRUE
    ELSE ExcludeLoop(exclude, content, k + 1)

\* any(kw in content for kw in self.include_keywords)
RECURSIVE AnyInclude(_, _, _)
AnyInclude(include, content, k) ==
    IF k > Len(include) THEN FALSE
    ELSE IF Contains(include[k], content) THEN TRUE
    ELSE AnyInclude(include, content, k + 1)

\* a filter in which an include keyword wins over an exclude keyword
FilterIncludeWins(content, include, exclude) ==
    IF Len(include) > 0 /\ AnyInclude(include, content, 1) THEN TRUE
    ELSE IF ExcludeLoop(exclude, content, 1) THEN FALSE
    ELSE Len(include) = 0

\* LogProcessor.filter
filter(content, include, exclude) ==
    IF ExcludeLoop(exclude, content, 1) THEN FALSE
    ELSE IF Len(include) > 0 THEN AnyInclude(include, content, 1) ELSE TRUE

(***************************************************************************)
(* Content Processor harness: a text and a keyword configuration are drawn *)
(* from bounded sets, clean is applied once or twice, filter is applied to *)
(* the cleaned text.                                                       *)
(***************************************************************************)

MaxTokens == 3

\* ESC, "[", "0", "D", "Ex", "mainEx"
ProcTokens == { <<27>>, <<91>>, <<48>>, <<68>>, <<69, 120>>, CHAR_FIX_KEYS[1] }

RECURSIVE Concat(_)
Concat(ss) == IF ss = <<>> THEN <<>> ELSE Head(ss) \o Concat(Tail(ss))

ProcTexts == { Concat(ts) : ts \in UNION { [1..n -> ProcTokens] : n \in 0..MaxTokens } }

\* keyword lists as list(set(...)) may order them: "main", "Ex", "0", "D"
ProcIncludes == { <<>>, << <<109, 97, 105, 110>> >>, << <<69, 120>>, <<48>> >> }
ProcExcludes == { <<>>, << <<68>> >>, << <<69, 120>> >>, << <<48>>, <<68>> >>, << <<68>>, <<48>> >> }

InitProc ==
    /\ procPc = "input"
    /\ procIn \in ProcTexts
    /\ procAnsi \in BOOLEAN
    /\ procInc \in ProcIncludes
    /\ procExc \in ProcExcludes
    /\ procOut = <<>>
    /\ procOut2 = <<>>
    /\ procVerdict = FALSE

IdleProc ==
    /\ procPc = "idle"
    /\ procIn = <<>>
    /\ procAnsi = FALSE
    /\ procInc = <<>>
    /\ procExc = <<>>
    /\ procOut = <<>>
    /\ procOut2 = <<>>
    /\ procVerdict = FALSE

ApplyClean ==
    /\ UNCHANGED <<cfgVars, truncVars, engineVars>>
    /\ procPc = "input"
    /\ procOut' = clean(procIn, procAnsi)
    /\ procPc' = "cleaned"
    /\ UNCHANGED <<procIn, procAnsi, procInc, procExc, procOut2, procVerdict>>

ApplyCleanAgain ==
    /\ UNCHANGED <<cfgVars, truncVars, engineVars>>
    /\ procPc = "cleaned"
    /\ procOut2' = clean(procOut, procAnsi)
    /\ procPc' = "cleaned2"
    /\ UNCHANGED <<procIn, procAnsi, procInc, procExc, procOut, procVerdict>>

ApplyFilter ==
    /\ UNCHANGED <<cfgVars, truncVars, engineVars>>
    /\ procPc = "cleaned"
    /\ procVerdict' = filter(procOut, procInc, procExc)
    /\ procPc' = "filtered"
    /\ UNCHANGED <<procIn, procAnsi, procInc, procExc, procOut, procOut2>>

NextProc == ApplyClean \/ ApplyCleanAgain \/ ApplyFilter

(***************************************************************************)
(* Config Provider: _get_param and the clamps of _validate_and_load_params.*)
(* A raw option is missing (NoOptionError, or its section is absent),      *)
(* invalid (ValueError from getint / getfloat) or a number.  A float is    *)
(* kept in thousandths: Wait_Interval 5.0 is 5000, Interval_MS 1000.0 is   *)
(* 1000000, and the interval in seconds is again in thousandths.           *)
(***************************************************************************)

Raw(n) == [kind |-> "number", val |-> n]
RawMissing == [kind |-> "missing", val |-> 0]
RawInvalid == [kind |-> "invalid", val |-> 0]

\* ConfigManager._get_param for the numeric types
get_param(raw, default) == IF raw.kind = "number" THEN raw.val ELSE default

\* the defaults table of _validate_and_load_params
defaults ==
    [Wait_Interval |-> 5000, Chunk_Size |-> 32768, Interval_MS |-> 1000000,
     Truncate_Sensitivity |-> 1024, Auto_Close_Delay |-> 3]

\* a clamp with the bounds the wrong way round
ClampSwapped(lo, x, hi) == Min(lo, Max(x, hi))

\* max(lo, min(x, hi))
Clamp(lo, x, hi) == Max(lo, Min(x, hi))

\* the clamped entries of the dictionary _validate_and_load_params returns
validate_and_load_params(raw) ==
    [wait_interval |-> Clamp(1000, get_param(raw.Wait_Interval, defaults.Wait_Interval), 30000),
     chunk_size |-> Clamp(4096, get_param(raw.Chunk_Size, defaults.Chunk_Size), 131072),
     interval |-> Clamp(100, get_param(raw.Interval_MS, defaults.Interval_MS) \div 1000, 5000),
     truncate_sensitivity |->
         Clamp(128, get_param(raw.Truncate_Sensitivity, defaults.Truncate_Sensitivity), 4096),
     auto_close_delay |-> Clamp(0, get_param(raw.Auto_Close_Delay, defaults.Auto_Close_Delay), 10)]

RawOf(S) == { Raw(n) : n \in S } \cup {RawMissing, RawInvalid}

CfgRaws ==
    [Wait_Interval : RawOf({0, 1000, 7500, 30000, 30001}),
     Chunk_Size : RawOf({-1, 4095, 4096, 131072, 131073}),
     Interval_MS : RawOf({99999, 100000, 2500000, 5000000, 5000999, 6000000}),
     Truncate_Sensitivity : RawOf({127, 128, 500, 4096, 4097}),
     Auto_Close_Delay : RawOf({-1, 0, 10, 11})]

NoParams ==
    [wait_interval |-> 0, chunk_size |-> 0, interval |-> 0, truncate_sensitivity |-> 0,
     auto_close_delay |-> 0]

InitCfg ==
    /\ cfgPc = "raw"
    /\ cfgRaw \in CfgRaws
    /\ valid_params = NoParams

IdleCfg ==
    /\ cfgPc = "idle"
    /\ cfgRaw = [Wait_Interval |-> RawMissing, Chunk_Size |-> RawMissing,
                 Interval_MS |-> RawMissing, Truncate_Sensitivity |-> RawMissing,
                 Auto_Close_Delay |-> RawMissing]
    /\ valid_params = NoParams

\* ConfigManager.__init__: self.valid_params = self._validate_and_load_params()
LoadParams ==
    /\ UNCHANGED <<procVars, truncVars, engineVars>>
    /\ cfgPc = "raw"
    /\ valid_params' = validate_and_load_params(cfgRaw)
    /\ cfgPc' = "loaded"
    /\ UNCHANGED cfgRaw

\* LogMonitor.__init__: self.params = self.config.valid_params, read from then on
UseParams ==
    /\ UNCHANGED <<procVars, truncVars, engineVars>>
    /\ cfgPc \in {"loaded", "used"}
    /\ cfgPc' = "used"
    /\ UNCHANGED <<cfgRaw, valid_params>>

NextCfg == LoadParams \/ UseParams

(***************************************************************************)
(* Truncation detection.  A size check is a record: ok is FALSE when       *)
(* stat() raised.                                                          *)
(***************************************************************************)

Abs(n) == IF n < 0 THEN -n ELSE n

StatOk(n) == [ok |-> TRUE, size |-> n]
StatFailed == [ok |-> FALSE, size |-> 0]

ZeroStats == [logs |-> 0, bytes |-> 0, truncates |-> 0, errors |-> 0]

\* a detector that fires on any size change of at least the sensitivity
DetectAnyChange(cur, last, st, sens) ==
    IF ~cur.ok THEN [ret |-> FALSE, last |-> last, stats |-> [st EXCEPT !.errors = @ + 1]]
    ELSE IF Abs(cur.size - last) >= sens
         THEN [ret |-> TRUE, last |-> cur.size, stats |-> [st EXCEPT !.truncates = @ + 1]]
         ELSE [ret |-> FALSE, last |-> cur.size, stats |-> st]

\* a detector that keeps its baseline when it reports a truncation
DetectKeepsBaseline(cur, last, st, sens) ==
    IF ~cur.ok THEN [ret |-> FALSE, last |-> last, stats |-> [st EXCEPT !.errors = @ + 1]]
    ELSE IF cur.size < last /\ Abs(cur.size - last) >= sens
         THEN [ret |-> TRUE, last |-> last, stats |-> [st EXCEPT !.truncates = @ + 1]]
         ELSE [ret |-> FALSE, last |-> cur.size, stats |-> st]

\* a detector that takes a failed size check for a size of 0
DetectFailureIsZero(cur, last, st, sens) ==
    LET size == IF cur.ok THEN cur.size ELSE 0
        errs == IF cur.ok THEN st ELSE [st EXCEPT !.errors = @ + 1]
    IN IF size < last /\ Abs(size - last) >= sens
       THEN [ret |-> TRUE, last |-> size, stats |-> [errs EXCEPT !.truncates = @ + 1]]
       ELSE [ret |-> FALSE, last |-> size, stats |-> errs]

\* a detector that starts the byte and line counters afresh at a truncation
DetectResetsCounters(cur, last, st, sens) ==
    IF ~cur.ok THEN [ret |-> FALSE, last |-> last, stats |-> [st EXCEPT !.errors = @ + 1]]
    ELSE IF cur.size < last /\ Abs(cur.size - last) >= sens
         THEN [ret |-> TRUE, last |-> cur.size,
               stats |-> [st EXCEPT !.truncates = @ + 1, !.bytes = 0, !.logs = 0]]
         ELSE [ret |-> FALSE, last |-> cur.size, stats |-> st]

\* LogMonitor._detect_truncate: the value returned, and _last_file_size and
\* _stats as it leaves them
detect_truncate(cur, last, st, sens) ==
    IF ~cur.ok THEN [ret |-> FALSE, last |-> last, stats |-> [st EXCEPT !.errors = @ + 1]]
    ELSE LET size_diff == Abs(cur.size - last) IN
         IF cur.size < last /\ size_diff >= sens
         THEN [ret |-> TRUE, last |-> cur.size, stats |-> [st EXCEPT !.truncates = @ + 1]]
         ELSE [ret |-> FALSE, last |-> cur.size, stats |-> st]

(***************************************************************************)
(* Truncation detector harness: _detect_truncate on a sequence of size     *)
(* checks, with sensitivities the clamp lets through.                      *)
(***************************************************************************)

MaxObs == 3

TruncSizes == {0, 200, 950, 1000, 1127, 1128}
TruncSens == {128, 500, 4096}

InitTrunc ==
    /\ tSens \in TruncSens
    /\ tLast = 0
    /\ tStats = ZeroStats
    /\ tObs = <<>>
    /\ tRets = <<>>

IdleTrunc ==
    /\ tSens = 0
    /\ tLast = 0
    /\ tStats = ZeroStats
    /\ tObs = <<>>
    /\ tRets = <<>>

Observe(cur) ==
    /\ UNCHANGED <<procVars, cfgVars, engineVars>>
    /\ Len(tObs) < MaxObs
    /\ LET r == detect_truncate(cur, tLast, tStats, tSens) IN
       /\ tLast' = r.last
       /\ tStats' = r.stats
       /\ tRets' = Append(tRets, r.ret)
    /\ tObs' = Append(tObs, cur)
    /\ UNCHANGED tSens

ObserveSize == \E n \in TruncSizes : Observe(StatOk(n))

ObserveFailure == Observe(StatFailed)

NextTrunc == ObserveSize \/ ObserveFailure

(***************************************************************************)
(* Monitor Engine.  The main thread runs start(); pc is the statement it   *)
(* is about to execute.  Between two statements the file may be changed    *)
(* from outside and a signal may be delivered.  The engine compares sizes  *)
(* and positions only, so the file is a few characters long and chunk_size *)
(* and truncate_sensitivity are drawn from values of that scale.           *)
(***************************************************************************)

MaxFileLen == 6
\* external events of one run: appends, truncations, I/O failures, signals
MaxEvents == 2

\* the characters the writer of the log appends: "I", "D"
Chars == {73, 68}
\* a log written before the monitor starts: "I" "D" ESC "D" "I"
OldLog == <<73, 68, 27, 68, 73>>
ChunkSizes == {2}
Sensitivities == {2}

EngineParams ==
    [wait_for_file : BOOLEAN, read_full_on_truncate : BOOLEAN,
     chunk_size : ChunkSizes, truncate_sensitivity : Sensitivities,
     filter_ansi : {TRUE}, include_keywords : { <<>>, << <<73>> >> },
     exclude_keywords : { << <<68>> >> },
     show_stats : BOOLEAN, auto_close_delay : {0, 1}]

None == [state |-> "None", pos |-> 0]

\* hist records what the properties speak about and the code keeps no variable
\* for: unslept, what the loop did since its last sleep ("none", a "check" of
\* the size, a "reopen"); wasRunning, _is_running has been set; loopFailed, an
\* exception was raised inside the poll loop; report, the statistics printed;
\* bytesRead, the length of all chunks read; seekPos, the cursor the initial
\* open left; polled, the chunks the poll cycles read on the initial handle.
NoReplay == [snap |-> <<>>, chunks |-> <<>>, emitted |-> <<>>, truncated |-> FALSE]

InitEngine ==
    /\ params \in EngineParams
    /\ os_nt \in BOOLEAN
    /\ fs \in { [kind |-> "absent", readable |-> TRUE, data |-> <<>>],
                [kind |-> "dir", readable |-> TRUE, data |-> <<>>],
                [kind |-> "dir", readable |-> FALSE, data |-> <<>>],
                [kind |-> "file", readable |-> FALSE, data |-> <<>>],
                [kind |-> "file", readable |-> TRUE, data |-> <<>>],
                [kind |-> "file", readable |-> TRUE, data |-> OldLog] }
    /\ pc = "validate"
    /\ file = None
    /\ is_running = FALSE
    /\ last_file_size = 0
    /\ stats = ZeroStats
    /\ handler = FALSE
    /\ exc = "none"
    /\ inTry = TRUE
    /\ mode = FALSE
    /\ closeRet = "open"
    /\ chunk = <<>>
    /\ total_bytes = 0
    /\ out = <<>>
    /\ exitCode = 0
    /\ hist = [startupFailed |-> FALSE, reports |-> 0, stopDone |-> FALSE,
               closes |-> 0, closedTwice |-> FALSE, signalled |-> FALSE,
               detected |-> FALSE, printed |-> "nothing", replay |-> NoReplay,
               replayed |-> FALSE, noop |-> FALSE, unslept |-> "none",
               wasRunning |-> FALSE, loopFailed |-> FALSE, report |-> <<>>,
               bytesRead |-> 0, seekPos |-> -1, polled |-> <<>>]
    /\ budget = MaxEvents

IdleEngine ==
    /\ params = [wait_for_file |-> FALSE, read_full_on_truncate |-> FALSE,
                 chunk_size |-> 2, truncate_sensitivity |-> 2, filter_ansi |-> TRUE,
                 include_keywords |-> <<>>, exclude_keywords |-> <<>>,
                 show_stats |-> FALSE, auto_close_delay |-> 0]
    /\ os_nt = FALSE
    /\ fs = [kind |-> "absent", readable |-> TRUE, data |-> <<>>]
    /\ pc = "idle"
    /\ file = None
    /\ is_running = FALSE
    /\ last_file_size = 0
    /\ stats = ZeroStats
    /\ handler = FALSE
    /\ exc = "none"
    /\ inTry = FALSE
    /\ mode = FALSE
    /\ closeRet = "open"
    /\ chunk = <<>>
    /\ total_bytes = 0
    /\ out = <<>>
    /\ exitCode = 0
    /\ hist = [startupFailed |-> FALSE, reports |-> 0, stopDone |-> FALSE,
               closes |-> 0, closedTwice |-> FALSE, signalled |-> FALSE,
               detected |-> FALSE, printed |-> "nothing", replay |-> NoReplay,
               replayed |-> FALSE, noop |-> FALSE, unslept |-> "none",
               wasRunning |-> FALSE, loopFailed |-> FALSE, report |-> <<>>,
               bytesRead |-> 0, seekPos |-> -1, polled |-> <<>>]
    /\ budget = 0

\* the harness variables stay as they are in every step of the engine
Others == UNCHANGED <<procVars, cfgVars, truncVars>>

Alive == pc \notin {"idle", "exited", "killed"}

\* self._file.read(n) at position pos of a file holding data
read(data, pos, n) == SubSeq(data, pos + 1, Min(pos + n, Len(data)))

\* an exception of class kind is raised inside the try block of start()
Raise(kind) ==
    /\ pc' = "except"
    /\ exc' = kind

\* an Exception is raised inside the try block of start()
RaiseException ==
    /\ pc' = "except"
    /\ exc' = "Exception"

\* an I/O call may fail while failures are left in the budget
MayFail == budget > 0
Failed == budget' = budget - 1

\* a seek that leaves the cursor at the start of the file
SeekToStart(data) == 0

\* self._file.seek(0, os.SEEK_END): the cursor it leaves
seek_end(data) == Len(data)

\* a cycle that goes round without sleeping when the read was empty
SkipSleepWhenIdle(c) == IF c # <<>> THEN "poll_stats" ELSE "loop_check"

\* a cycle that emits a chunk without counting it
SkipStats(c) == IF c # <<>> THEN "poll_emit" ELSE "sleep"

\* start(): `if new_content:` runs the counters and the emission, and the
\* cycle's sleep follows either way
after_read(c) == IF c # <<>> THEN "poll_stats" ELSE "sleep"

\* a stop() that goes on to its report without closing the handle
StopSkipsClose == "stop_stats"

\* stop(): self._close_file() follows self._is_running = False
stop_next == "close_file"

\* a stop() that always takes the early return
StopAlwaysReturns(running) == TRUE

\* a stop() that never takes the early return
StopNeverReturns(running) == FALSE

\* stop(): `if not self._is_running: return`
stop_returns(running) == ~running

\* _close_file: `if self._file and not self._file.closed`
needs_close(f) == f.state = "open"

\* an open that replays the file whatever read_full is
OpenAlwaysReplays(read_full) == "replay_read"

\* an open that seeks to the end of the file whatever read_full is
OpenAlwaysSeeks(read_full) == "open_seek"

\* _open_file: `if read_full:` ... `else:`
open_branch(read_full) == IF read_full THEN "replay_read" ELSE "open_seek"

\* a loop that reopens on every truncation, whatever read_full_on_truncate is
ReopenOnAnyTruncation(truncated, read_full_on_truncate) == truncated

\* a loop that never reopens on truncation
ReopenNever(truncated, read_full_on_truncate) == FALSE

\* start(): `if self._detect_truncate() and self.params["read_full_on_truncate"]`
reopen_needed(truncated, read_full_on_truncate) == truncated /\ read_full_on_truncate

\* an emission that keeps the characters of the chunk that pass the filter one by one
PrintedPerCharacter(cleaned, include, exclude) ==
    SelectSeq(cleaned, LAMBDA c : filter(<<c>>, include, exclude))

\* `if self.processor.filter(cleaned): print(cleaned, end='', flush=True)`:
\* what reaches the console for one cleaned chunk
printed(cleaned, include, exclude) ==
    IF filter(cleaned, include, exclude) THEN cleaned ELSE <<>>

\* _validate_file, one pass of `while not file_path.exists()` and the checks after it
ValidateFile ==
    /\ Others
    /\ pc = "validate"
    /\ IF fs.kind = "absent"
       THEN IF params.wait_for_file
            THEN pc' = "validate_sleep" /\ UNCHANGED <<exc, hist, closeRet, mode>>
            ELSE /\ Raise("FileNotFoundError")
                 /\ hist' = [hist EXCEPT !.startupFailed = TRUE]
                 /\ UNCHANGED <<closeRet, mode>>
       ELSE IF fs.kind # "file"
            THEN /\ Raise("IsADirectoryError")
                 /\ hist' = [hist EXCEPT !.startupFailed = TRUE]
                 /\ UNCHANGED <<closeRet, mode>>
       ELSE IF ~fs.readable
            THEN /\ Raise("PermissionError")
                 /\ hist' = [hist EXCEPT !.startupFailed = TRUE]
                 /\ UNCHANGED <<closeRet, mode>>
            ELSE \* start(): self._open_file(read_full=False)
                 /\ pc' = "close_file"
                 /\ closeRet' = "open"
                 /\ mode' = FALSE
                 /\ UNCHANGED <<exc, hist>>
    /\ UNCHANGED <<params, fs, file, is_running, last_file_size, stats, handler, inTry,
                   chunk, total_bytes, out, exitCode, os_nt, budget>>

\* _validate_file: time.sleep(self.params["wait_interval"])
ValidateSleep ==
    /\ Others
    /\ pc = "validate_sleep"
    /\ pc' = "validate"
    /\ UNCHANGED <<params, fs, file, is_running, last_file_size, stats, handler, exc,
                   inTry, mode, closeRet, chunk, total_bytes, out, exitCode, os_nt, hist,
                   budget>>

\* _close_file: the guarded self._file.close(), whose failure is counted and swallowed
CloseFile ==
    /\ Others
    /\ pc = "close_file"
    /\ pc' = "close_null"
    /\ IF needs_close(file)
       THEN /\ file' = [file EXCEPT !.state = "closed"]
            /\ hist' = [hist EXCEPT !.closes = @ + 1,
                                    !.closedTwice = @ \/ file.state = "closed"]
            /\ \/ UNCHANGED <<stats, budget>>
               \/ /\ MayFail
                  /\ Failed
                  /\ stats' = [stats EXCEPT !.errors = @ + 1]
       ELSE UNCHANGED <<file, hist, stats, budget>>
    /\ UNCHANGED <<params, fs, is_running, last_file_size, handler, exc, inTry, mode,
                   closeRet, chunk, total_bytes, out, exitCode, os_nt>>

\* _close_file: self._file = None, then back to _open_file or stop
CloseFileNull ==
    /\ Others
    /\ pc = "close_null"
    /\ file' = None
    /\ pc' = IF closeRet = "open" THEN "open_file" ELSE "stop_stats"
    /\ UNCHANGED <<params, fs, is_running, last_file_size, stats, handler, exc, inTry,
                   mode, closeRet, chunk, total_bytes, out, exitCode, os_nt, hist, budget>>

\* _open_file: self._file = open(...)
OpenFile ==
    /\ Others
    /\ pc = "open_file"
    /\ \/ /\ file' = [state |-> "open", pos |-> 0]
          /\ pc' = "open_stat"
          /\ hist' = IF mode
                     THEN [hist EXCEPT !.replay = [snap |-> fs.data, chunks |-> <<>>,
                                                   emitted |-> <<>>, truncated |-> FALSE]]
                     ELSE hist
          /\ UNCHANGED <<exc, budget>>
       \/ /\ MayFail
          /\ Failed
          /\ RaiseException
          /\ hist' = [hist EXCEPT !.startupFailed = @ \/ ~mode,
                                  !.loopFailed = @ \/ mode]
          /\ UNCHANGED file
    /\ UNCHANGED <<params, fs, is_running, last_file_size, stats, handler, inTry, mode,
                   closeRet, chunk, total_bytes, out, exitCode, os_nt>>

\* _open_file: self._last_file_size = self.params["file_path"].stat().st_size
OpenStat ==
    /\ Others
    /\ pc = "open_stat"
    /\ \/ /\ last_file_size' = Len(fs.data)
          /\ total_bytes' = 0
          /\ pc' = open_branch(mode)
          /\ UNCHANGED <<exc, budget, hist>>
       \/ /\ MayFail
          /\ Failed
          /\ RaiseException
          /\ hist' = [hist EXCEPT !.startupFailed = @ \/ ~mode,
                                  !.loopFailed = @ \/ mode]
          /\ UNCHANGED <<last_file_size, total_bytes>>
    /\ UNCHANGED <<params, fs, file, is_running, stats, handler, inTry, mode, closeRet,
                   chunk, out, exitCode, os_nt>>

\* _open_file: self._file.seek(0, os.SEEK_END)
OpenSeek ==
    /\ Others
    /\ pc = "open_seek"
    /\ file' = [file EXCEPT !.pos = seek_end(fs.data)]
    /\ hist' = [hist EXCEPT !.seekPos = Len(fs.data)]
    /\ pc' = "set_running"
    /\ UNCHANGED <<params, fs, is_running, last_file_size, stats, handler, exc, inTry,
                   mode, closeRet, chunk, total_bytes, out, exitCode, os_nt, budget>>

\* _open_file: `while chunk := self._file.read(self.params["chunk_size"])`
ReplayRead ==
    /\ Others
    /\ pc = "replay_read"
    /\ \/ LET c == read(fs.data, file.pos, params.chunk_size) IN
          /\ chunk' = c
          /\ file' = [file EXCEPT !.pos = @ + Len(c)]
          /\ total_bytes' = total_bytes + Len(c)
          /\ pc' = IF c # <<>> THEN "replay_emit" ELSE "replay_done"
          /\ hist' = IF c # <<>>
                     THEN [hist EXCEPT !.replay.chunks = Append(@, c),
                                       !.bytesRead = @ + Len(c)]
                     ELSE hist
          /\ UNCHANGED <<exc, budget>>
       \/ /\ MayFail
          /\ Failed
          /\ RaiseException
          /\ hist' = [hist EXCEPT !.loopFailed = TRUE]
          /\ UNCHANGED <<chunk, file, total_bytes>>
    /\ UNCHANGED <<params, fs, is_running, last_file_size, stats, handler, inTry, mode,
                   closeRet, out, exitCode, os_nt>>

\* _open_file: cleaned = clean(chunk); if filter(cleaned): print(cleaned)
ReplayEmit ==
    /\ Others
    /\ pc = "replay_emit"
    /\ LET cleaned == clean(chunk, params.filter_ansi)
           text == printed(cleaned, params.include_keywords, params.exclude_keywords)
       IN /\ out' = out \o text
          /\ hist' = [hist EXCEPT !.replay.emitted = @ \o text,
                                  !.printed = IF text = <<>> THEN "nothing" ELSE "chunk"]
    /\ pc' = "replay_read"
    /\ UNCHANGED <<params, fs, file, is_running, last_file_size, stats, handler, exc,
                   inTry, mode, closeRet, chunk, total_bytes, exitCode, os_nt, budget>>

\* _open_file: the statistics after the replay loop, then start(): continue
ReplayDone ==
    /\ Others
    /\ pc = "replay_done"
    /\ stats' = [stats EXCEPT !.bytes = @ + total_bytes,
                              !.logs = @ + (total_bytes \div 100)]
    /\ hist' = [hist EXCEPT !.replayed = TRUE]
    /\ pc' = "loop_check"
    /\ UNCHANGED <<params, fs, file, is_running, last_file_size, handler, exc, inTry,
                   mode, closeRet, chunk, total_bytes, out, exitCode, os_nt, budget>>

\* start(): self._is_running = True
SetRunning ==
    /\ Others
    /\ pc = "set_running"
    /\ is_running' = TRUE
    /\ hist' = [hist EXCEPT !.wasRunning = TRUE]
    /\ pc' = "register"
    /\ UNCHANGED <<params, fs, file, last_file_size, stats, handler, exc, inTry, mode,
                   closeRet, chunk, total_bytes, out, exitCode, os_nt, budget>>

\* start(): signal.signal(SIGINT if os.name == "nt" else SIGTERM, self.stop)
RegisterHandler ==
    /\ Others
    /\ pc = "register"
    /\ handler' = TRUE
    /\ pc' = "loop_check"
    /\ UNCHANGED <<params, fs, file, is_running, last_file_size, stats, exc, inTry, mode,
                   closeRet, chunk, total_bytes, out, exitCode, os_nt, hist, budget>>

\* start(): `while self._is_running:`
LoopCheck ==
    /\ Others
    /\ pc = "loop_check"
    /\ pc' = IF is_running THEN "detect" ELSE "finally"
    /\ UNCHANGED <<params, fs, file, is_running, last_file_size, stats, handler, exc,
                   inTry, mode, closeRet, chunk, total_bytes, out, exitCode, os_nt, hist,
                   budget>>

\* start(): the call of _detect_truncate and the branch on its result
DetectTruncate ==
    /\ Others
    /\ pc = "detect"
    /\ \E cur \in {StatOk(Len(fs.data))} \cup (IF MayFail THEN {StatFailed} ELSE {}) :
          LET r == detect_truncate(cur, last_file_size, stats, params.truncate_sensitivity)
          IN /\ last_file_size' = r.last
             /\ stats' = r.stats
             /\ hist' = [hist EXCEPT
                           !.detected = r.ret,
                           !.unslept = IF reopen_needed(r.ret, params.read_full_on_truncate)
                                       THEN "reopen" ELSE "check"]
             /\ budget' = IF cur.ok THEN budget ELSE budget - 1
             /\ IF reopen_needed(r.ret, params.read_full_on_truncate)
                THEN \* self._open_file(read_full=True)
                     /\ pc' = "close_file"
                     /\ closeRet' = "open"
                     /\ mode' = TRUE
                ELSE /\ pc' = "poll_read"
                     /\ UNCHANGED <<closeRet, mode>>
    /\ UNCHANGED <<params, fs, file, is_running, handler, exc, inTry, chunk, total_bytes,
                   out, exitCode, os_nt>>

\* start(): `if self._file:` new_content = self._file.read(chunk_size)
PollRead ==
    /\ Others
    /\ pc = "poll_read"
    /\ IF file.state = "None"
       THEN /\ pc' = "sleep"
            /\ UNCHANGED <<chunk, file, exc, budget, hist>>
       ELSE \/ LET c == read(fs.data, file.pos, params.chunk_size) IN
               /\ chunk' = c
               /\ file' = [file EXCEPT !.pos = @ + Len(c)]
               /\ pc' = after_read(c)
               /\ hist' = [hist EXCEPT
                             !.bytesRead = @ + Len(c),
                             !.polled = IF c # <<>> /\ ~mode THEN Append(@, c) ELSE @]
               /\ UNCHANGED <<exc, budget>>
            \/ /\ MayFail
               /\ Failed
               /\ RaiseException
               /\ hist' = [hist EXCEPT !.loopFailed = TRUE]
               /\ UNCHANGED <<chunk, file>>
    /\ UNCHANGED <<params, fs, is_running, last_file_size, stats, handler, inTry, mode,
                   closeRet, total_bytes, out, exitCode, os_nt>>

\* start(): self._stats["bytes"] += len(new_content); self._stats["logs"] += 1
PollStats ==
    /\ Others
    /\ pc = "poll_stats"
    /\ stats' = [stats EXCEPT !.bytes = @ + Len(chunk), !.logs = @ + 1]
    /\ pc' = "poll_emit"
    /\ UNCHANGED <<params, fs, file, is_running, last_file_size, handler, exc, inTry,
                   mode, closeRet, chunk, total_bytes, out, exitCode, os_nt, hist, budget>>

\* start(): cleaned = clean(new_content); if filter(cleaned): print(cleaned)
PollEmit ==
    /\ Others
    /\ pc = "poll_emit"
    /\ LET cleaned == clean(chunk, params.filter_ansi)
           text == printed(cleaned, params.include_keywords, params.exclude_keywords)
       IN /\ out' = out \o text
          /\ hist' = [hist EXCEPT !.printed = IF text = <<>> THEN "nothing" ELSE "chunk"]
    /\ pc' = "sleep"
    /\ UNCHANGED <<params, fs, file, is_running, last_file_size, stats, handler, exc,
                   inTry, mode, closeRet, chunk, total_bytes, exitCode, os_nt, budget>>

\* start(): time.sleep(self.params["interval"])
Sleep ==
    /\ Others
    /\ pc = "sleep"
    /\ pc' = "loop_check"
    /\ hist' = [hist EXCEPT !.unslept = "none"]
    /\ UNCHANGED <<params, fs, file, is_running, last_file_size, stats, handler, exc,
                   inTry, mode, closeRet, chunk, total_bytes, out, exitCode, os_nt,
                   budget>>

\* start(): `except Exception as e:` self._stats["errors"] += 1
Except ==
    /\ Others
    /\ pc = "except"
    /\ stats' = [stats EXCEPT !.errors = @ + 1]
    /\ exc' = "none"
    /\ pc' = "finally"
    /\ UNCHANGED <<params, fs, file, is_running, last_file_size, handler, inTry, mode,
                   closeRet, chunk, total_bytes, out, exitCode, os_nt, hist, budget>>

\* start(): `finally: self.stop()`.  When stop() returns at once, an exception
\* still in flight leaves start() and main(), which catches Exception only;
\* with none in flight start() and main() return.
Finally ==
    /\ Others
    /\ pc = "finally"
    /\ inTry' = FALSE
    /\ IF stop_returns(is_running)
       THEN /\ pc' = "exited"
            /\ exitCode' = IF exc = "KeyboardInterrupt" THEN 130 ELSE 0
            /\ hist' = [hist EXCEPT !.noop = TRUE]
       ELSE /\ pc' = "stop_flag"
            /\ UNCHANGED <<exitCode, hist>>
    /\ UNCHANGED <<params, fs, file, is_running, last_file_size, stats, handler, exc,
                   mode, closeRet, chunk, total_bytes, out, os_nt, budget>>

\* stop(): self._is_running = False; self._close_file()
StopFlag ==
    /\ Others
    /\ pc = "stop_flag"
    /\ is_running' = FALSE
    /\ closeRet' = "stop"
    /\ pc' = stop_next
    /\ UNCHANGED <<params, fs, file, last_file_size, stats, handler, exc, inTry, mode,
                   chunk, total_bytes, out, exitCode, os_nt, hist, budget>>

\* stop(): self._print_stats(), which prints when show_stats is set
StopStats ==
    /\ Others
    /\ pc = "stop_stats"
    /\ hist' = [hist EXCEPT !.stopDone = TRUE,
                            !.reports = IF params.show_stats THEN @ + 1 ELSE @,
                            !.report = IF params.show_stats THEN Append(@, stats) ELSE @]
    /\ pc' = IF params.auto_close_delay > 0 THEN "stop_countdown" ELSE "stop_exit"
    /\ UNCHANGED <<params, fs, file, is_running, last_file_size, stats, handler, exc,
                   inTry, mode, closeRet, chunk, total_bytes, out, exitCode, os_nt, budget>>

\* stop(): the countdown of auto_close_delay seconds
StopCountdown ==
    /\ Others
    /\ pc = "stop_countdown"
    /\ pc' = "stop_exit"
    /\ UNCHANGED <<params, fs, file, is_running, last_file_size, stats, handler, exc,
                   inTry, mode, closeRet, chunk, total_bytes, out, exitCode, os_nt, hist,
                   budget>>

\* stop(): sys.exit(0).  SystemExit passes `except Exception`; raised inside
\* the try block it runs the finally clause first.
StopExit ==
    /\ Others
    /\ pc = "stop_exit"
    /\ IF inTry
       THEN /\ pc' = "finally"
            /\ exc' = "SystemExit"
            /\ UNCHANGED exitCode
       ELSE /\ pc' = "exited"
            /\ exitCode' = 0
            /\ UNCHANGED exc
    /\ UNCHANGED <<params, fs, file, is_running, last_file_size, stats, handler, inTry,
                   mode, closeRet, chunk, total_bytes, out, os_nt, hist, budget>>

Signalled ==
    /\ Alive
    /\ budget > 0
    /\ budget' = budget - 1

\* the signal self.stop is registered for arrives: stop(signum, frame) runs on
\* the main thread, on top of the statement it interrupts.  When it does not
\* return at once it ends in sys.exit(0) and the interrupted frame never resumes.
SignalHandled ==
    /\ Others
    /\ Signalled
    /\ handler
    /\ IF stop_returns(is_running)
       THEN /\ hist' = [hist EXCEPT !.signalled = TRUE, !.noop = TRUE]
            /\ UNCHANGED pc
       ELSE /\ hist' = [hist EXCEPT !.signalled = TRUE]
            /\ pc' = "stop_flag"
    /\ UNCHANGED <<params, fs, file, is_running, last_file_size, stats, handler, exc,
                   inTry, mode, closeRet, chunk, total_bytes, out, exitCode, os_nt>>

\* SIGTERM with no handler registered for it (before signal.signal has run, or
\* on nt, where start() registers SIGINT only): the default action ends the process
SignalTermDefault ==
    /\ Others
    /\ Signalled
    /\ ~(handler /\ ~os_nt)
    /\ pc' = "killed"
    /\ exitCode' = 143
    /\ hist' = [hist EXCEPT !.signalled = TRUE]
    /\ UNCHANGED <<params, fs, file, is_running, last_file_size, stats, handler, exc,
                   inTry, mode, closeRet, chunk, total_bytes, out, os_nt>>

\* SIGINT with no handler registered for it (before signal.signal has run, or
\* off nt, where start() registers SIGTERM only): KeyboardInterrupt is raised
\* at the interrupted statement
SignalIntDefault ==
    /\ Others
    /\ Signalled
    /\ ~(handler /\ os_nt)
    /\ hist' = [hist EXCEPT !.signalled = TRUE]
    /\ IF inTry
       THEN /\ pc' = "finally"
            /\ exc' = "KeyboardInterrupt"
            /\ UNCHANGED exitCode
       ELSE /\ pc' = "exited"
            /\ exitCode' = 130
            /\ UNCHANGED exc
    /\ UNCHANGED <<params, fs, file, is_running, last_file_size, stats, handler, inTry,
                   mode, closeRet, chunk, total_bytes, out, os_nt>>

\* The engine sees the file only in the statements that call exists(), open(),
\* stat(), seek() or read(): a change of the file takes effect for it at the
\* next of these, so the file changes right before one of them.
Observing ==
    pc \in {"validate", "open_file", "open_stat", "open_seek", "replay_read", "detect",
            "poll_read"}

\* the log file appears
EnvCreate ==
    /\ Others
    /\ Observing
    /\ fs.kind = "absent"
    /\ fs' = [kind |-> "file", readable |-> TRUE, data |-> <<>>]
    /\ UNCHANGED <<params, pc, file, is_running, last_file_size, stats, handler, exc,
                   inTry, mode, closeRet, chunk, total_bytes, out, exitCode, os_nt, hist,
                   budget>>

\* the writer of the log appends a character
EnvAppend ==
    /\ Others
    /\ Observing
    /\ fs.kind = "file" /\ fs.readable
    /\ budget > 0
    /\ Len(fs.data) < MaxFileLen
    /\ \E c \in Chars : fs' = [fs EXCEPT !.data = Append(@, c)]
    /\ budget' = budget - 1
    /\ UNCHANGED <<params, pc, file, is_running, last_file_size, stats, handler, exc,
                   inTry, mode, closeRet, chunk, total_bytes, out, exitCode, os_nt, hist>>

\* the log is truncated to a shorter length (rotation truncates it to 0)
EnvTruncate ==
    /\ Others
    /\ Observing
    /\ fs.kind = "file"
    /\ budget > 0
    /\ \E n \in 0..(Len(fs.data) - 1) : fs' = [fs EXCEPT !.data = SubSeq(@, 1, n)]
    /\ budget' = budget - 1
    /\ hist' = [hist EXCEPT !.replay.truncated = TRUE]
    /\ UNCHANGED <<params, pc, file, is_running, last_file_size, stats, handler, exc,
                   inTry, mode, closeRet, chunk, total_bytes, out, exitCode, os_nt>>

EngineStep ==
    \/ ValidateFile \/ ValidateSleep \/ CloseFile \/ CloseFileNull \/ OpenFile
    \/ OpenStat \/ OpenSeek \/ ReplayRead \/ ReplayEmit \/ ReplayDone \/ SetRunning
    \/ RegisterHandler \/ LoopCheck \/ DetectTruncate \/ PollRead \/ PollStats
    \/ PollEmit \/ Sleep \/ Except \/ Finally \/ StopFlag \/ StopStats
    \/ StopCountdown \/ StopExit

External ==
    \/ SignalHandled \/ SignalTermDefault \/ SignalIntDefault
    \/ EnvCreate \/ EnvAppend \/ EnvTruncate

Next == EngineStep \/ External

Init == InitEngine /\ IdleProc /\ IdleCfg /\ IdleTrunc

Spec == Init /\ [][Next]_vars

\* the main thread takes its next step while the process lives
FairSpec == Spec /\ WF_vars(EngineStep)

ProcInit == InitProc /\ IdleCfg /\ IdleTrunc /\ IdleEngine

SpecProc == ProcInit /\ [][NextProc]_vars

ConfigInit == InitCfg /\ IdleProc /\ IdleTrunc /\ IdleEngine

SpecConfig == ConfigInit /\ [][NextCfg]_vars

TruncInit == InitTrunc /\ IdleProc /\ IdleCfg /\ IdleEngine

SpecTrunc == TruncInit /\ [][NextTrunc]_vars

(***************************************************************************)
(* Properties                                                              *)
(***************************************************************************)

Range(seq) == { seq[i] : i \in DOMAIN seq }

\* kw is a literal substring of text
IsSubstring(kw, text) ==
    \E i \in 0..(Len(text) - Len(kw)) : SubSeq(text, i + 1, i + Len(kw)) = kw

\* the reference predicate of the filter, over keyword sets
Keep(text, include, exclude) ==
    IF \E kw \in exclude : IsSubstring(kw, text) THEN FALSE
    ELSE IF include = {} THEN TRUE
    ELSE \E kw \in include : IsSubstring(kw, text)

\* C3: every size check returns true exactly when it succeeded and the size is
\* below the size of the preceding successful check (0 before the first) by at
\* least the sensitivity; truncate_events counts the true results.
RECURSIVE LastSeen(_, _)
LastSeen(obs, k) ==
    IF k = 0 THEN 0
    ELSE IF obs[k].ok THEN obs[k].size
    ELSE LastSeen(obs, k - 1)

C3_TruncationIffDrop ==
    /\ Len(tRets) = Len(tObs)
    /\ \A k \in 1..Len(tObs) :
          LET cur == tObs[k]
              last == LastSeen(tObs, k - 1)
          IN tRets[k] = (cur.ok /\ cur.size < last /\ last - cur.size >= tSens)
    /\ tStats.truncates = Cardinality({ k \in 1..Len(tRets) : tRets[k] })
    /\ tLast = LastSeen(tObs, Len(tObs))

C3_Witness ==
    /\ tSens = 500
    /\ tObs = <<StatOk(1000), StatOk(1000), StatOk(200)>>
    /\ tRets = <<FALSE, FALSE, TRUE>>
    /\ tStats.truncates = 1

\* C6: filter(text) is the reference predicate: an exclude keyword in the text
\* gives false, otherwise an empty include set or an include keyword in the
\* text gives true, otherwise false.
C6_FilterIsReference ==
    procPc = "filtered" => procVerdict = Keep(procOut, Range(procInc), Range(procExc))

C6_Witness ==
    /\ procPc = "filtered"
    /\ \E kw \in Range(procInc) : IsSubstring(kw, procOut)
    /\ \E kw \in Range(procExc) : IsSubstring(kw, procOut)
    /\ procVerdict = FALSE

\* C8: with filter_ansi enabled, cleaning a cleaned text changes nothing.
C8_CleanIdempotent ==
    (procPc = "cleaned2" /\ procAnsi) => procOut2 = procOut

\* C9: every clamped parameter of the bundle is in its interval, a raw value
\* in the interval is passed through, and the bundle does not change once built.
InRange(lo, x, hi) == lo <= x /\ x <= hi

PassedThrough(raw, lo, hi, value) ==
    (raw.kind = "number" /\ InRange(lo, raw.val, hi)) => value = raw.val

C9_Clamped ==
    cfgPc \in {"loaded", "used"} =>
        /\ InRange(1000, valid_params.wait_interval, 30000)
        /\ InRange(4096, valid_params.chunk_size, 131072)
        /\ InRange(100, valid_params.interval, 5000)
        /\ InRange(128, valid_params.truncate_sensitivity, 4096)
        /\ InRange(0, valid_params.auto_close_delay, 10)
        /\ PassedThrough(cfgRaw.Wait_Interval, 1000, 30000, valid_params.wait_interval)
        /\ PassedThrough(cfgRaw.Chunk_Size, 4096, 131072, valid_params.chunk_size)
        /\ (cfgRaw.Interval_MS.kind = "number"
            /\ InRange(100000, cfgRaw.Interval_MS.val, 5000000)) =>
               InRange(0, cfgRaw.Interval_MS.val - 1000 * valid_params.interval, 999)
        /\ PassedThrough(cfgRaw.Truncate_Sensitivity, 128, 4096,
                         valid_params.truncate_sensitivity)
        /\ PassedThrough(cfgRaw.Auto_Close_Delay, 0, 10, valid_params.auto_close_delay)

Ended == pc \in {"exited", "killed"}

\* C1: a run whose validate_file or initial open failed ends with a non-zero
\* exit code.
C1_StartupFailureExitsNonZero ==
    (Ended /\ hist.startupFailed) => exitCode # 0

\* C2 as stated: once stop() has reached its report, exactly one statistics
\* report has been produced and no handle was closed twice.
C2_ExactlyOneReport ==
    hist.stopDone => (hist.reports = 1 /\ ~hist.closedTwice)

\* C2, amended: whatever stop() invocations a run holds, at most one statistics
\* report is produced and no handle is closed twice; once stop() has reached
\* its report there is exactly one report when show_stats is set and none when
\* it is not; a stop() call while running is false changes nothing of the engine.
C2_Reports ==
    /\ hist.reports <= 1
    /\ ~hist.closedTwice
    /\ hist.stopDone => hist.reports = (IF params.show_stats THEN 1 ELSE 0)

C2_StopIdempotent ==
    /\ []C2_Reports
    /\ [][(~is_running /\ (pc = "finally" \/ SignalHandled)) =>
             /\ UNCHANGED <<file, is_running, last_file_size, stats, out, handler>>
             /\ hist'.reports = hist.reports
             /\ hist'.closes = hist.closes]_vars

C2_Witness ==
    /\ pc = "exited"
    /\ hist.signalled /\ hist.noop
    /\ budget = 0
    /\ hist.stopDone /\ hist.reports = 1 /\ hist.closes = 1
    /\ file = None

\* what the console receives for the chunks of a replay, by the reference
\* predicate of the filter
RECURSIVE Kept(_, _)
Kept(chunks, k) ==
    IF k > Len(chunks) THEN <<>>
    ELSE LET c == clean(chunks[k], params.filter_ansi) IN
         (IF Keep(c, Range(params.include_keywords), Range(params.exclude_keywords))
          THEN c ELSE <<>>) \o Kept(chunks, k + 1)

IsPrefix(a, b) == Len(a) <= Len(b) /\ SubSeq(b, 1, Len(a)) = a

\* C4 as stated: when a replay ends, every byte that was in the file at reopen
\* time has been emitted once, in file order, and the cursor is at end-of-file.
C4_ReplayEmitsEveryByte ==
    (pc = "replay_done" /\ ~hist.replay.truncated) =>
        /\ IsPrefix(hist.replay.snap, hist.replay.emitted)
        /\ file.pos = Len(fs.data)

\* C4, amended: a reopen ordered with read_full always replays; when the file is
\* not truncated during the replay, the replay reads every byte of the file
\* once, in file order (those in the file at reopen time first), the console
\* receives the cleaned chunks that pass the filter and nothing of the others,
\* and the cursor ends at end-of-file.
C4_ReplayReadsEveryByte ==
    /\ mode => pc \notin {"open_seek", "set_running", "register"}
    /\ (pc = "replay_done" /\ ~hist.replay.truncated) =>
          /\ Concat(hist.replay.chunks) = fs.data
          /\ IsPrefix(hist.replay.snap, Concat(hist.replay.chunks))
          /\ \A k \in 1..Len(hist.replay.chunks) :
                Len(hist.replay.chunks[k]) \in 1..params.chunk_size
          /\ hist.replay.emitted = Kept(hist.replay.chunks, 1)
          /\ file.pos = Len(fs.data)
          /\ total_bytes = Len(fs.data)

C4_Witness ==
    /\ pc = "replay_done"
    /\ ~hist.replay.truncated
    /\ Len(hist.replay.chunks) >= 2
    /\ hist.replay.emitted # <<>>
    /\ hist.replay.emitted # hist.replay.snap
    /\ Len(fs.data) > Len(hist.replay.snap)

CursorBeyond == file.state = "open" /\ file.pos > Len(fs.data)

\* C5 as stated: whenever the file's size is below the read cursor, the engine
\* eventually repositions, unless the process ends.
C5_AlwaysRecovers == CursorBeyond ~> (~CursorBeyond \/ Ended)

\* C5, amended: when a size check reports a truncation and read_full_on_truncate
\* is set, the cycle reopens the file instead of reading from the old cursor,
\* and when the reopen is done the cursor is not beyond the end of the file
\* (unless the file was truncated again meanwhile).
C5_ReportedTruncationReopens ==
    /\ (hist.detected /\ params.read_full_on_truncate) =>
          pc \notin {"poll_read", "poll_stats", "poll_emit", "sleep"}
    /\ (hist.detected /\ params.read_full_on_truncate /\ hist.replayed
        /\ pc \in {"loop_check", "detect"} /\ ~hist.replay.truncated) => ~CursorBeyond

C5_Witness ==
    /\ pc = "poll_emit"
    /\ hist.replayed /\ ~hist.replay.truncated
    /\ stats.truncates = 1
    /\ Len(fs.data) > Len(hist.replay.snap)
    /\ chunk = SubSeq(fs.data, Len(fs.data), Len(fs.data))

EmitStep == pc \in {"poll_emit", "replay_emit"} /\ pc' \in {"sleep", "replay_read"}

\* C7: the console changes only when a chunk is emitted, and then it receives
\* the whole cleaned chunk when the cleaned chunk passes the filter and nothing
\* otherwise.
C7_ChunkGranular ==
    [][/\ out' # out => EmitStep
       /\ EmitStep =>
            LET c == clean(chunk, params.filter_ansi) IN
            out' = out \o (IF Keep(c, Range(params.include_keywords),
                                   Range(params.exclude_keywords))
                           THEN c ELSE <<>>)]_vars

C7_Witness ==
    /\ pc = "sleep"
    /\ chunk = <<73, 68>>
    /\ params.include_keywords = << <<73>> >>
    /\ hist.printed = "nothing"
    /\ out = <<>>
    /\ stats.bytes = 2

\* C10: a run in which a signal was delivered ends only after stop() has closed
\* the handle and reached its statistics report.
C10_SignalRunsStop ==
    (Ended /\ hist.signalled) => (hist.stopDone /\ file = None)

\* C11: a termination signal that arrives between the read of a chunk and its
\* emission only requests the stop: the main thread stays in its cycle with
\* the handle as it is, so that the chunk read is counted and emitted and the
\* teardown waits for the loop's next check of running.
C11_ChunkReadIsEmitted ==
    [][(pc \in {"poll_stats", "poll_emit"} /\ SignalHandled) =>
          (pc' = pc /\ file' = file)]_vars

\* C12 as stated: whenever the loop is about to check for truncation, it has
\* slept since its preceding check.
C12_SleepBetweenChecks ==
    pc = "detect" => hist.unslept = "none"

\* C12, amended: a cycle that does not reopen the file ends with the sleep, so
\* the loop comes to a truncation check without a sleep since the preceding
\* check only when that check ordered a reopen and the full replay is done; a
\* read, its counting and its emission belong to a cycle that did not reopen.
C12_SleepUnlessReopened ==
    /\ pc = "detect" => hist.unslept \in {"none", "reopen"}
    /\ (pc = "detect" /\ hist.unslept = "reopen") => hist.replayed
    /\ pc \in {"poll_read", "poll_stats", "poll_emit", "sleep"} => hist.unslept = "check"

C12_Witness ==
    /\ pc = "detect"
    /\ hist.unslept = "reopen"
    /\ hist.replayed
    /\ stats.truncates = 1
    /\ stats.bytes = Len(fs.data)

\* C13 as stated: whenever the handle is open, running is true.
C13_OpenMeansRunning ==
    file.state = "open" => is_running

InPollLoop == pc \in {"loop_check", "detect", "poll_read", "poll_stats", "poll_emit", "sleep"}

\* C13, amended: running is true in every state of the poll loop, so a handle
\* open there is open while running; the handle is open with running false
\* only before running was first set (start() opens the file before it sets
\* running) or after stop() has set running to false and as long as stop() has
\* not closed it: once stop() has reached its report the handle is not open,
\* and no handle is opened after running has become false.
C13_OpenWhileRunning ==
    InPollLoop => is_running

C13_OpenWithoutRunning ==
    (file.state = "open" /\ ~is_running /\ hist.wasRunning) => ~hist.stopDone

C13_OpenAroundRunning ==
    /\ [](C13_OpenWhileRunning /\ C13_OpenWithoutRunning)
    /\ [][(file.state # "open" /\ file'.state = "open") =>
             (is_running \/ ~hist.wasRunning)]_vars

C13_Witness ==
    /\ pc = "close_file"
    /\ closeRet = "stop"
    /\ file.state = "open"
    /\ ~is_running
    /\ hist.wasRunning
    /\ hist.replayed

\* the main thread completes the size check of a cycle, with a size read
\* (SizeCheckOk) or with a failure of the size read (SizeCheckFailed)
SizeCheckOk ==
    pc = "detect" /\ pc' \in {"poll_read", "close_file"} /\ budget' = budget

SizeCheckFailed ==
    pc = "detect" /\ pc' \in {"poll_read", "close_file"} /\ budget' = budget - 1

SizeReadAtOpen == pc = "open_stat" /\ pc' \in {"open_seek", "replay_read"}

\* C14: every size check that succeeds, whether it reports a truncation or not,
\* and every open or reopen that reads the size, leaves in last_known_size
\* the size of the file it observed.
C14_LastSizeIsObservation ==
    [][/\ SizeCheckOk => last_file_size' = Len(fs.data)
       /\ SizeReadAtOpen => last_file_size' = Len(fs.data)]_vars

C14_Witness ==
    /\ pc = "close_file"
    /\ closeRet = "open"
    /\ mode
    /\ hist.detected
    /\ stats.truncates = 1
    /\ last_file_size = Len(fs.data)
    /\ last_file_size > 0

\* C15: a size check that fails adds exactly 1 to error_count, reports no
\* truncation, leaves last_known_size, truncate_events, the handle and running
\* as they are, and the cycle goes on to its read.
C15_SizeCheckFailureAbsorbed ==
    [][SizeCheckFailed =>
          /\ stats' = [stats EXCEPT !.errors = @ + 1]
          /\ last_file_size' = last_file_size
          /\ file' = file
          /\ is_running' = is_running
          /\ ~hist'.detected
          /\ pc' = "poll_read"]_vars

C15_Witness ==
    /\ pc = "sleep"
    /\ stats.errors = 1
    /\ stats.truncates = 0
    /\ ~hist.replayed
    /\ ~hist.detected
    /\ last_file_size = 5
    /\ Len(fs.data) = 2
    /\ is_running
    /\ file.state = "open"

\* the main thread completes one pass of validate_file
ValidateStep == pc = "validate" /\ pc' \in {"validate_sleep", "except", "close_file"}

\* what validate_file is to do for the path as it is
ValidateOutcome ==
    IF fs.kind = "absent"
    THEN IF params.wait_for_file THEN "retry" ELSE "FileNotFoundError"
    ELSE IF fs.kind # "file" THEN "IsADirectoryError"
    ELSE IF ~fs.readable THEN "PermissionError"
    ELSE "valid"

\* until validate_file and the initial open are through, running is false and
\* no log content has been read, counted or emitted; a startup that failed
\* never comes to Polling
C16_NothingBeforeStartup ==
    /\ ~hist.wasRunning =>
          (~is_running /\ out = <<>> /\ hist.bytesRead = 0 /\ stats.bytes = 0
           /\ stats.logs = 0 /\ ~InPollLoop)
    /\ hist.startupFailed => (~hist.wasRunning /\ pc \in {"except", "finally", "exited", "killed"})

\* C16: running becomes true, and log content is read or emitted, only after
\* validate_file and the initial open (stat and seek to the end) have
\* succeeded; validate_file raises NotFound at once iff the path is absent and
\* wait_for_file is false, retries after a sleep while the path is absent and
\* wait_for_file is true, and for a path that exists raises TypeMismatch when
\* it is no regular file, otherwise PermissionDenied when it is unreadable.
C16_StartupFatalBeforePolling ==
    /\ []C16_NothingBeforeStartup
    /\ [][/\ (~is_running /\ is_running') =>
                (pc = "set_running" /\ file.state = "open" /\ ~mode
                 /\ file.pos = hist.seekPos /\ fs.kind = "file" /\ ~hist.startupFailed)
          /\ ValidateStep =>
                /\ (pc' = "validate_sleep") = (ValidateOutcome = "retry")
                /\ (pc' = "close_file") = (ValidateOutcome = "valid")
                /\ (pc' = "except") = (exc' = ValidateOutcome)
                /\ (pc' = "except") => (hist'.startupFailed /\ ~is_running')]_vars

C16_Witness ==
    /\ pc = "except"
    /\ exc = "IsADirectoryError"
    /\ fs.kind = "dir" /\ ~fs.readable
    /\ params.wait_for_file
    /\ hist.startupFailed
    /\ ~is_running /\ out = <<>>

AfterLoopException ==
    \/ pc \in {"except", "finally", "stop_flag", "close_null", "stop_stats",
               "stop_countdown", "stop_exit", "exited", "killed"}
    \/ pc = "close_file" /\ closeRet = "stop"

C17_Stopped ==
    /\ hist.loopFailed => AfterLoopException
    /\ (hist.loopFailed /\ hist.stopDone) =>
          /\ ~is_running /\ file = None
          /\ hist.reports = (IF params.show_stats THEN 1 ELSE 0)
          /\ Len(hist.report) = hist.reports
          /\ params.show_stats =>
                (hist.report[1] = stats /\ (stats.errors >= 1 \/ hist.signalled))

C18_BytesCountEveryChunk ==
    pc \in {"replay_read", "sleep"} => stats.bytes = hist.bytesRead

NoCounterLowered ==
    /\ stats'.logs >= stats.logs
    /\ stats'.bytes >= stats.bytes
    /\ stats'.truncates >= stats.truncates
    /\ stats'.errors >= stats.errors

\* the lengths of the chunks read that bytes_processed does not hold yet: the
\* chunk a poll cycle has just read, the chunks of a replay in progress
Uncounted ==
    IF pc = "poll_stats" THEN Len(chunk)
    ELSE IF pc \in {"replay_read", "replay_emit", "replay_done"} THEN total_bytes
    ELSE 0

C18_Counted ==
    /\ stats.logs >= 0 /\ stats.bytes >= 0 /\ stats.truncates >= 0 /\ stats.errors >= 0
    /\ ~hist.wasRunning => stats.bytes = 0
    /\ pc \in {"loop_check", "detect", "poll_read", "poll_stats", "poll_emit", "sleep",
               "replay_read", "replay_emit", "replay_done"} =>
          stats.bytes + Uncounted = hist.bytesRead

\* C18, amended: no step lowers a counter and all counters start at 0; a poll
\* cycle adds the length of the chunk it read to bytes_processed (and 1 to
\* lines_processed) before the filter is asked; a replay sums the lengths of
\* its chunks, filtered out or not, and adds the sum to bytes_processed (and
\* the sum divided by 100 to lines_processed) when it completes, so at every
\* turn of the loop bytes_processed is the length of all chunks read.
C18_CountersGrow ==
    /\ []C18_Counted
    /\ [][/\ NoCounterLowered
          /\ stats'.bytes # stats.bytes => pc \in {"poll_stats", "replay_done"}
          /\ (pc = "poll_stats" /\ pc' = "poll_emit") =>
                stats' = [stats EXCEPT !.bytes = @ + Len(chunk), !.logs = @ + 1]
          /\ (pc = "replay_done" /\ pc' = "loop_check") =>
                stats' = [stats EXCEPT !.bytes = @ + total_bytes,
                                       !.logs = @ + (total_bytes \div 100)]]_vars

C18_Witness ==
    /\ pc = "loop_check"
    /\ hist.replayed
    /\ stats.truncates = 1
    /\ stats.bytes = 3 /\ hist.bytesRead = 3
    /\ stats.logs = 0
    /\ out = <<>>

\* C19: a cycle reads, counts and emits only after its own truncation check,
\* and only when that check ordered no reopen; a check that reports a
\* truncation with read_full_on_truncate set goes to the reopen, and the replay
\* is followed by the loop's next check, not by a read; what the console
\* receives is the cleaned chunk, and only when the filter accepts the cleaned
\* chunk; at the cycle's sleep the chunk read in the cycle has been counted.
C19_OrderInCycle ==
    /\ pc \in {"poll_read", "poll_stats", "poll_emit"} => hist.unslept = "check"
    /\ hist.unslept = "reopen" =>
          pc \notin {"poll_read", "poll_stats", "poll_emit", "sleep"}
    /\ pc = "sleep" => stats.bytes = hist.bytesRead

C19_PollCycleOrdering ==
    /\ []C19_OrderInCycle
    /\ [][/\ (SizeCheckOk /\ hist'.detected /\ params.read_full_on_truncate) =>
                (pc' = "close_file" /\ mode' /\ closeRet' = "open")
          /\ (SizeCheckOk /\ ~(hist'.detected /\ params.read_full_on_truncate)) =>
                pc' = "poll_read"
          /\ pc = "replay_done" => pc' \in {"replay_done", "loop_check", "stop_flag",
                                           "finally", "killed"}
          /\ out' # out =>
                LET cleaned == clean(chunk, params.filter_ansi) IN
                /\ pc \in {"poll_emit", "replay_emit"}
                /\ filter(cleaned, params.include_keywords, params.exclude_keywords)
                /\ out' = out \o cleaned]_vars

C19_Witness ==
    /\ pc = "sleep"
    /\ hist.replayed
    /\ hist.unslept = "check"
    /\ hist.printed = "chunk"
    /\ stats.logs = 1
    /\ stats.bytes = hist.bytesRead
    /\ out # <<>>

Front(seq) == SubSeq(seq, 1, Len(seq) - 1)

\* while no reopen has been ordered: the cursor has moved from the end of the
\* file, where the initial open left it, by the chunks the poll cycles read;
\* only these chunks are counted, and the console holds the cleaned ones of
\* them that pass the filter (all but the last while that is being handled or
\* when its handling was cut short)
C20_OnlyPolledContent ==
    ~mode =>
        /\ out \in {Kept(hist.polled, 1)} \cup
                   (IF hist.polled # <<>> THEN {Kept(Front(hist.polled), 1)} ELSE {})
        /\ stats.bytes \in {Len(Concat(hist.polled))} \cup
                   (IF hist.polled # <<>> THEN {Len(Concat(Front(hist.polled)))} ELSE {})
        /\ hist.bytesRead = Len(Concat(hist.polled))
        /\ (file.state = "open" /\ hist.seekPos >= 0) =>
              file.pos = hist.seekPos + Len(Concat(hist.polled))
        /\ hist.seekPos < 0 => (hist.polled = <<>> /\ pc # "poll_read")

\* a poll cycle reads from the handle
PollReadStep == pc = "poll_read" /\ pc' \in {"poll_stats", "sleep"} /\ file.state = "open"

\* C20: the initial open leaves the cursor at the end of the file and emits
\* nothing; until a truncation orders a reopen, what was in the file at the
\* initial open is neither emitted nor counted, and each poll cycle reads the
\* bytes that stand right behind the cursor, at most chunk_size of them, and
\* moves the cursor past them, so that a byte is read at most once, in file
\* order, and only bytes written behind the end the initial open found.
C20_InitialOpenSkipsContent ==
    /\ []C20_OnlyPolledContent
    /\ [][/\ (pc = "open_seek" /\ pc' = "set_running") =>
                (file'.pos = Len(fs.data) /\ out' = <<>> /\ stats' = stats
                 /\ stats.bytes = 0 /\ hist'.bytesRead = 0)
          /\ PollReadStep =>
                /\ chunk' = SubSeq(fs.data, file.pos + 1, file.pos + Len(chunk'))
                /\ Len(chunk') <= params.chunk_size
                /\ (Len(chunk') < params.chunk_size) => file.pos + Len(chunk') >= Len(fs.data)
                /\ file'.pos = file.pos + Len(chunk')
                /\ ~mode => file.pos >= hist.seekPos]_vars

C20_Witness ==
    /\ pc = "sleep"
    /\ ~mode
    /\ hist.seekPos = 5
    /\ fs.data = OldLog \o <<73>>
    /\ hist.polled = << <<73>> >>
    /\ out = <<73>>
    /\ stats.bytes = 1
    /\ file.pos = 6

\* C21: a size check that reports a truncation while read_full_on_truncate is
\* false adds 1 to truncate_events and takes the size it read as
\* last_known_size, leaves the handle and its cursor as they are, orders no
\* reopen, and the same cycle goes on to read from the old cursor.
C21_AtOldCursor ==
    (pc = "poll_read" /\ hist.detected /\ ~params.read_full_on_truncate) =>
        /\ ~mode /\ ~hist.replayed
        /\ file.state = "open"
        /\ file.pos = hist.seekPos + Len(Concat(hist.polled))
        /\ hist.unslept = "check"

C21_TruncationWithoutReplay ==
    /\ []C21_AtOldCursor
    /\ [][(SizeCheckOk /\ hist'.detected /\ ~params.read_full_on_truncate) =>
             /\ stats' = [stats EXCEPT !.truncates = @ + 1]
             /\ last_file_size' = Len(fs.data)
             /\ last_file_size' < last_file_size
             /\ file' = file
             /\ UNCHANGED <<mode, closeRet, chunk, total_bytes, out, is_running>>
             /\ pc' = "poll_read"]_vars

C21_Witness ==
    /\ pc = "sleep"
    /\ hist.detected
    /\ ~params.read_full_on_truncate
    /\ stats.truncates = 1
    /\ last_file_size = 2 /\ Len(fs.data) = 2
    /\ file.state = "open" /\ file.pos = 5
    /\ stats.bytes = 0 /\ out = <<>>

\* C22: an open finds no handle left by the previous one, and when start() has
\* ended without a signal having been delivered, whether by a failure of
\* validate_file, a failure of the initial open or an exception in the loop,
\* the handle is closed and file_handle is absent.
C22_NoHandleLeak ==
    /\ pc = "open_file" => file = None
    /\ (pc = "exited" /\ ~hist.signalled) => file = None

====
